---- MODULE Spec2Model ----
(***************************************************************************)
(* Deadlock prevention toolkit: the Banker's-Algorithm request arbiter,    *)
(* the wait-for cycle detector and the recovery policy.  The repository    *)
(* holds two variants of the toolkit: src/app.py (dictionaries, one        *)
(* resource per request, detection and recovery) and src/main.py (numpy    *)
(* matrices, vector requests, release).  A behaviour runs one variant.     *)
(***************************************************************************)
EXTENDS Integers, Sequences, FiniteSets, TLC

(* ------------------------------ bounds -------------------------------- *)
\* app.py: initialize_system draws each capacity with random.randint(1, 5)
RandCap == 5
\* app.py: the largest capacity drawn in the model, for every system but the
\* smallest one
MaxCap == 1
\* main.py: largest initial available[r] of the generic configurations; a
\* maximum claim may exceed it by one (initialize_system does not compare them)
MaxUnits == 1
\* main.py: largest component of a request / release vector
\* (simulate_deadlock draws random.randint(0, 2))
MaxAmt == 2
\* main.py: release_resources can drive allocation below zero without limit;
\* the model lets it run while the units over-released in total stay within
MaxDebt == 1

\* app.py under threads: the number of threads that call the toolkit
NumThreads == 2
\* app.py under threads: the number of calls the threads make in all
MaxCalls == 4

\* (num_processes, num_resources) given to app.py initialize_system
AppShapes == {<<2, 1>>, <<2, 2>>, <<3, 1>>}
\* the capacities drawn for a system: the whole range of the program for the
\* smallest system, up to MaxCap for the others
CapLimit(nproc, nres) == IF <<nproc, nres>> = <<2, 1>> THEN RandCap ELSE MaxCap
\* app.py: recover_deadlock adds to resources[rid] on every call; the model
\* lets it run while every capacity stays within MaxGrown
MaxGrown(nproc, nres) == CapLimit(nproc, nres) + 1
\* app.py: largest amount asked of request_resource (amount >= 1); a larger
\* amount exceeds every max_needed and is refused like this one
MaxAmount(nproc, nres) == CapLimit(nproc, nres) + 1
\* (processes, resources) given to the main.py constructor: two small generic
\* systems and the 3 x 3 system of main()
MainShapes == {<<2, 1>>, <<1, 2>>, <<3, 3>>}

VARIABLES
    variant,      \* "app" or "main": which toolkit this behaviour runs
    resources,    \* app.py self.resources: rid -> capacity
    processes,    \* app.py self.processes: pid -> [allocated, max_needed, status]
    m_processes,  \* main.py self.processes: the number of processes
    m_resources,  \* main.py self.resources: the number of resource types
    allocation,   \* main.py self.allocation
    maximum,      \* main.py self.maximum
    available,    \* main.py self.available
    need,         \* main.py self.need
    last,         \* the last call: operation, outcome (main.py: and arguments);
                  \* under threads a result goes to the calling thread only
    rt,           \* main.py: a granted request and the state it started from,
                  \* kept while the next call is the release of the same amounts
    lock,         \* app.py self.lock: 0 when free, else the thread that holds it
    threads,      \* app.py under threads: each thread's position in its call
                  \* and its local variables
    calls         \* app.py under threads: the calls made so far

appvars == <<resources, processes>>
mainvars == <<m_processes, m_resources, allocation, maximum, available, need, rt>>
threadvars == <<lock, threads, calls>>
vars == <<variant, resources, processes, m_processes, m_resources,
          allocation, maximum, available, need, last, rt, lock, threads,
          calls>>

Call(op, pid, arg, ok, victim) ==
    [op |-> op, pid |-> pid, arg |-> arg, ok |-> ok, victim |-> victim]
NoCall == Call("none", -1, << >>, FALSE, -1)
NoRT == [stage |-> "none", pid |-> -1, req |-> << >>, before |-> << >>]

Threads == 1 .. NumThreads
\* a thread: pc is "idle" (between calls), "request" (in request_resource,
\* before the lock), "commit" (in request_resource, holding the lock, the
\* checks done) or "reclaim" (in recover_deadlock, detection done, before the
\* lock); temp is temp_allocated[resource_id], victim is deadlocked[0]
Frame(pc, process_id, resource_id, temp, ok, victim) ==
    [pc |-> pc, process_id |-> process_id, resource_id |-> resource_id,
     temp |-> temp, ok |-> ok, victim |-> victim]
Idle == Frame("idle", -1, -1, -1, FALSE, -1)

(* ------------------------------ helpers ------------------------------- *)
Range(s) == {s[i] : i \in DOMAIN s}

\* the dictionary keys "P0", "P1", ... / "R0", "R1", ... in insertion order
Keys(n) == 0 .. (n - 1)

RECURSIVE SumUpTo(_, _)
SumUpTo(f, n) == IF n < 0 THEN 0 ELSE f[n] + SumUpTo(f, n - 1)

\* sum(p["allocated"].get(rid, 0) for p in procs.values())
SumAllocated(procs, rid) ==
    SumUpTo([pid \in DOMAIN procs |-> procs[pid].allocated[rid]],
            Cardinality(DOMAIN procs) - 1)

(* ------------------------- app.py: is_safe_state ---------------------- *)
AllFinished(tp) == \A pid \in DOMAIN tp : tp[pid].finished

CanRun(tp, av, pid) ==
    \A rid \in DOMAIN av :
        ~(tp[pid].max_needed[rid] - tp[pid].allocated[rid] > av[rid])

\* one pass of "for pid in temp_processes" starting at pid i
RECURSIVE SafePass(_, _, _, _)
SafePass(tp, av, i, found) ==
    IF i \notin DOMAIN tp THEN [tp |-> tp, av |-> av, found |-> found]
    ELSE IF ~tp[i].finished /\ CanRun(tp, av, i)
         THEN SafePass([tp EXCEPT ![i].finished = TRUE],
                       [rid \in DOMAIN av |-> av[rid] + tp[i].allocated[rid]],
                       i + 1, TRUE)
         ELSE SafePass(tp, av, i + 1, found)

\* the "while True" loop
RECURSIVE SafeLoop(_, _)
SafeLoop(tp, av) ==
    LET r == SafePass(tp, av, 0, FALSE)
    IN  IF ~r.found THEN AllFinished(r.tp)
        ELSE IF AllFinished(r.tp) THEN TRUE
        ELSE SafeLoop(r.tp, r.av)

\* a loop that tests "all finished" only when a pass found nothing
RECURSIVE SafePassesLate(_, _)
SafePassesLate(tp, av) ==
    LET r == SafePass(tp, av, 0, FALSE)
    IN  IF ~r.found THEN 1 ELSE 1 + SafePassesLate(r.tp, r.av)

\* the number of passes the "while True" loop makes before it returns
RECURSIVE SafePasses(_, _)
SafePasses(tp, av) ==
    LET r == SafePass(tp, av, 0, FALSE)
    IN  IF ~r.found THEN 1
        ELSE IF AllFinished(r.tp) THEN 1
        ELSE 1 + SafePasses(r.tp, r.av)

\* the availability is_safe_state starts from: computed from self.processes,
\* in which the tentative allocation is not yet written
SafeAvailable(res, procs) ==
    [rid \in DOMAIN res |-> res[rid] - SumAllocated(procs, rid)]

is_safe_state(res, procs, process_id, temp_allocated) ==
    LET avail == SafeAvailable(res, procs)
        temp_processes ==
            [pid \in DOMAIN procs |->
                [allocated  |-> IF pid # process_id THEN procs[pid].allocated
                                ELSE temp_allocated,
                 max_needed |-> procs[pid].max_needed,
                 finished   |-> FALSE]]
    IN  SafeLoop(temp_processes, avail)

\* the passes is_safe_state makes on the same arguments
is_safe_state_passes(res, procs, process_id, temp_allocated) ==
    LET avail == SafeAvailable(res, procs)
        temp_processes ==
            [pid \in DOMAIN procs |->
                [allocated  |-> IF pid # process_id THEN procs[pid].allocated
                                ELSE temp_allocated,
                 max_needed |-> procs[pid].max_needed,
                 finished   |-> FALSE]]
    IN  SafePasses(temp_processes, avail)

(* ------------------------ app.py: request_resource -------------------- *)
\* the check "amount > max_needed[resource_id]" that refuses a request
ExceedsClaim(procs, process_id, resource_id, amount) ==
    amount > procs[process_id].max_needed[resource_id]

\* the result of request_resource: [ok, processes]
request_resource(res, procs, process_id, resource_id, amount) ==
    IF resource_id \notin DOMAIN res \/ process_id \notin DOMAIN procs
    THEN [ok |-> FALSE, processes |-> procs]
    ELSE IF ExceedsClaim(procs, process_id, resource_id, amount)
    THEN [ok |-> FALSE, processes |-> procs]
    ELSE LET avail == res[resource_id] - SumAllocated(procs, resource_id)
         IN  IF avail < amount
             THEN [ok |-> FALSE, processes |-> procs]
             ELSE LET temp_allocated ==
                          [procs[process_id].allocated EXCEPT
                              ![resource_id] = @ + amount]
                  IN  IF is_safe_state(res, procs, process_id, temp_allocated)
                      THEN [ok |-> TRUE,
                            processes |->
                                [procs EXCEPT
                                    ![process_id].allocated[resource_id] =
                                        temp_allocated[resource_id]]]
                      ELSE [ok |-> FALSE, processes |-> procs]

(* ------------------------- app.py: detect_deadlock -------------------- *)
\* SeqOf(S): the members of a set of integers in ascending order
RECURSIVE SeqOf(_)
SeqOf(S) ==
    IF S = {} THEN << >>
    ELSE LET m == CHOOSE x \in S : \A y \in S : x <= y
         IN  <<m>> \o SeqOf(S \ {m})

RECURSIVE Flatten(_)
Flatten(ss) == IF ss = << >> THEN << >> ELSE Head(ss) \o Flatten(Tail(ss))

\* waiting.get(pid, []): the resources pid still needs, in order
Waiting(procs, res, pid) ==
    SeqOf({rid \in DOMAIN res :
              procs[pid].max_needed[rid] - procs[pid].allocated[rid] > 0})

\* the holders has_cycle visits from pid, in the order of its two loops
Holders(procs, res, pid) ==
    LET w == Waiting(procs, res, pid)
    IN  Flatten([k \in DOMAIN w |->
            SeqOf({next_pid \in DOMAIN procs :
                      procs[next_pid].allocated[w[k]] > 0})])

\* has_cycle(pid, path) with the shared set "visited" threaded through:
\* the result is [ret, visited]
RECURSIVE has_cycle(_, _, _, _, _), ScanHolders(_, _, _, _, _, _)
has_cycle(procs, res, pid, path, visited) ==
    IF pid \in Range(path) THEN [ret |-> TRUE, visited |-> visited]
    ELSE IF pid \in visited THEN [ret |-> FALSE, visited |-> visited]
    ELSE ScanHolders(procs, res, pid, path, visited \cup {pid}, 1)

ScanHolders(procs, res, pid, path, visited, k) ==
    LET hs == Holders(procs, res, pid)
    IN  IF k > Len(hs) THEN [ret |-> FALSE, visited |-> visited]
        ELSE LET r == has_cycle(procs, res, hs[k], Append(path, pid), visited)
             IN  IF r.ret THEN r
                 ELSE ScanHolders(procs, res, pid, path, r.visited, k + 1)

\* a detection that does not clear "visited" between two starts
RECURSIVE DetectShared(_, _, _, _)
DetectShared(procs, res, pid, visited) ==
    IF pid \notin DOMAIN procs THEN << >>
    ELSE LET r == has_cycle(procs, res, pid, << >>, visited)
         IN  (IF r.ret THEN <<pid>> ELSE << >>)
                 \o DetectShared(procs, res, pid + 1, r.visited)
detect_deadlock_shared(procs, res) == DetectShared(procs, res, 0, {})

\* the list "deadlocked", in process order; visited is cleared per start
detect_deadlock(procs, res) ==
    LET hit == {pid \in DOMAIN procs : has_cycle(procs, res, pid, << >>, {}).ret}
    IN  SeqOf(hit)

(* ------------------------- app.py: recover_deadlock ------------------- *)
\* what recovery does to the capacity table for victim pid
ReclaimResources(res, procs, pid) ==
    [rid \in DOMAIN res |-> res[rid] + procs[pid].allocated[rid]]

\* what recovery does to the process table for victim pid
ReclaimProcess(res, procs, pid) ==
    [procs EXCEPT ![pid].allocated = [rid \in DOMAIN res |-> 0],
                  ![pid].status = "Terminated"]

\* a recovery that takes the last process of the list instead of the first
recover_deadlock_last(res, procs) ==
    LET deadlocked == detect_deadlock(procs, res)
    IN  IF deadlocked # << >>
        THEN LET pid == deadlocked[Len(deadlocked)]
             IN  [victim    |-> pid,
                  resources |-> ReclaimResources(res, procs, pid),
                  processes |-> ReclaimProcess(res, procs, pid)]
        ELSE [victim |-> -1, resources |-> res, processes |-> procs]

\* the result of recover_deadlock: [victim, resources, processes]
recover_deadlock(res, procs) ==
    LET deadlocked == detect_deadlock(procs, res)
    IN  IF deadlocked # << >>
        THEN LET pid == deadlocked[1]
             IN  [victim    |-> pid,
                  resources |-> ReclaimResources(res, procs, pid),
                  processes |-> ReclaimProcess(res, procs, pid)]
        ELSE [victim |-> -1, resources |-> res, processes |-> procs]

(* ------------------------- main.py: vectors --------------------------- *)
\* a Python list / numpy vector, indexed from 0
Vec(seq) == [k \in Keys(Len(seq)) |-> seq[k + 1]]
VecLeq(a, b) == \A k \in DOMAIN a : a[k] <= b[k]
VecAdd(a, b) == [k \in DOMAIN a |-> a[k] + b[k]]
VecSub(a, b) == [k \in DOMAIN a |-> a[k] - b[k]]

\* the part of the toolkit the calls of main.py read and write
MainState ==
    [processes  |-> m_processes,
     available  |-> available,
     allocation |-> allocation,
     need       |-> need]

(* ------------------------- main.py: is_safe_state --------------------- *)
\* one pass of "for i in range(self.processes)" from process i on; the scan
\* goes on after a runnable process is found
RECURSIVE ScanPass(_, _, _)
ScanPass(st, w, i) ==
    IF i >= st.processes THEN w
    ELSE IF ~w.finish[i] /\ VecLeq(st.need[i], w.work)
         THEN ScanPass(st,
                       [work          |-> VecAdd(w.work, st.allocation[i]),
                        finish        |-> [w.finish EXCEPT ![i] = TRUE],
                        safe_sequence |-> Append(w.safe_sequence, i),
                        found         |-> TRUE],
                       i + 1)
         ELSE ScanPass(st, w, i + 1)

\* the loop "while False in finish"
RECURSIVE ScanLoop(_, _)
ScanLoop(st, w) ==
    IF FALSE \notin Range(w.finish)
    THEN [ret |-> TRUE, safe_sequence |-> w.safe_sequence]
    ELSE LET r == ScanPass(st, [w EXCEPT !.found = FALSE], 0)
         IN  IF ~r.found
             THEN [ret |-> FALSE, safe_sequence |-> r.safe_sequence]
             ELSE ScanLoop(st, r)

\* the number of passes the loop "while False in finish" makes
RECURSIVE ScanPasses(_, _)
ScanPasses(st, w) ==
    IF FALSE \notin Range(w.finish) THEN 0
    ELSE LET r == ScanPass(st, [w EXCEPT !.found = FALSE], 0)
         IN  IF ~r.found THEN 1 ELSE 1 + ScanPasses(st, r)

\* the passes main.py is_safe_state makes on st
is_safe_state_main_passes(st) ==
    ScanPasses(st, [work          |-> st.available,
                    finish        |-> [i \in Keys(st.processes) |-> FALSE],
                    safe_sequence |-> << >>,
                    found         |-> FALSE])

\* main.py is_safe_state: [ret, safe_sequence]
is_safe_state_main(st) ==
    ScanLoop(st, [work          |-> st.available,
                  finish        |-> [i \in Keys(st.processes) |-> FALSE],
                  safe_sequence |-> << >>,
                  found         |-> FALSE])

(* ------------------------ main.py: request_resources ------------------ *)
\* "Temporarily allocate resources"
TentativeAllocate(st, process_id, request) ==
    [st EXCEPT !.available = VecSub(@, request),
               !.allocation[process_id] = VecAdd(@, request),
               !.need[process_id] = VecSub(@, request)]

\* a roll back that restores available and allocation and forgets need
RollBackPartial(st, process_id, request) ==
    [st EXCEPT !.available = VecAdd(@, request),
               !.allocation[process_id] = VecSub(@, request)]

\* "Roll back if unsafe"
RollBack(st, process_id, request) ==
    [st EXCEPT !.available = VecAdd(@, request),
               !.allocation[process_id] = VecSub(@, request),
               !.need[process_id] = VecAdd(@, request)]

\* a request that is committed as soon as need and availability allow it,
\* without the safety check
request_resources_unchecked(st, process_id, request) ==
    IF ~VecLeq(request, st.need[process_id])
    THEN [ok |-> FALSE, st |-> st]
    ELSE IF ~VecLeq(request, st.available)
    THEN [ok |-> FALSE, st |-> st]
    ELSE [ok |-> TRUE, st |-> TentativeAllocate(st, process_id, request)]

\* the result of request_resources: [ok, st]
request_resources(st, process_id, request) ==
    IF ~VecLeq(request, st.need[process_id])
    THEN [ok |-> FALSE, st |-> st]
    ELSE IF ~VecLeq(request, st.available)
    THEN [ok |-> FALSE, st |-> st]
    ELSE LET t == TentativeAllocate(st, process_id, request)
         IN  IF is_safe_state_main(t).ret
             THEN [ok |-> TRUE, st |-> t]
             ELSE [ok |-> FALSE, st |-> RollBack(t, process_id, request)]

(* ------------------------ main.py: release_resources ------------------ *)
\* a release that forgets to give the units back to need
release_resources_noneed(st, process_id, release) ==
    [st EXCEPT !.allocation[process_id] = VecSub(@, release),
               !.available = VecAdd(@, release)]

\* a release that takes the units from the process and does not return them
\* to available
release_resources_keepavail(st, process_id, release) ==
    [st EXCEPT !.allocation[process_id] = VecSub(@, release),
               !.need[process_id] = VecAdd(@, release)]

release_resources(st, process_id, release) ==
    [st EXCEPT !.allocation[process_id] = VecSub(@, release),
               !.available = VecAdd(@, release),
               !.need[process_id] = VecAdd(@, release)]

\* units released beyond what was held, over the whole allocation matrix
Debt(alloc) ==
    SumUpTo([i \in DOMAIN alloc |->
                SumUpTo([k \in DOMAIN alloc[i] |->
                            IF alloc[i][k] < 0 THEN 0 - alloc[i][k] ELSE 0],
                        Cardinality(DOMAIN alloc[i]) - 1)],
            Cardinality(DOMAIN alloc) - 1)

(* ------------------------- main.py: main() ----------------------------- *)
\* the system main() sets up
ScenarioAvailable == Vec(<<3, 3, 2>>)
ScenarioMaximum == Vec(<<Vec(<<7, 5, 3>>), Vec(<<3, 2, 2>>), Vec(<<9, 0, 2>>)>>)
\* the request main() makes first: toolkit.request_resources(1, [1, 0, 2])
ScenarioProcess == 1
ScenarioRequest == Vec(<<1, 0, 2>>)

(* ------------------------------ actions ------------------------------- *)
Zeros(n) == [k \in Keys(n) |-> 0]
ZeroMatrix(p, r) == [i \in Keys(p) |-> Zeros(r)]

\* the state after construction: DeadlockToolkit() of app.py, or
\* DeadlockToolkit(processes, resources) of main.py
Init ==
    /\ variant \in {"app", "main"}
    /\ resources = << >>
    /\ processes = << >>
    /\ \E shape \in MainShapes \cup {<<0, 0>>} :
         /\ (shape = <<0, 0>>) <=> (variant = "app")
         /\ m_processes = shape[1]
         /\ m_resources = shape[2]
         /\ allocation = ZeroMatrix(shape[1], shape[2])
         /\ maximum = ZeroMatrix(shape[1], shape[2])
         /\ need = ZeroMatrix(shape[1], shape[2])
         /\ available = Zeros(shape[2])
    /\ last = NoCall
    /\ rt = NoRT
    /\ lock = 0
    /\ threads = [t \in Threads |-> Idle]
    /\ calls = 0

\* app.py initialize_system: called once; the random draws are inputs
AppInitialize ==
    /\ variant = "app"
    /\ DOMAIN resources = {}
    /\ \E shape \in AppShapes :
        \E res \in [Keys(shape[2]) -> 1 .. CapLimit(shape[1], shape[2])] :
         \E mx \in [Keys(shape[1]) ->
                      [Keys(shape[2]) -> 0 .. CapLimit(shape[1], shape[2])]] :
           /\ \A pid \in Keys(shape[1]) : \A rid \in Keys(shape[2]) :
                  mx[pid][rid] <= res[rid]
           /\ resources' = res
           /\ processes' =
                  [pid \in Keys(shape[1]) |->
                      [allocated  |-> [rid \in Keys(shape[2]) |-> 0],
                       max_needed |-> mx[pid],
                       status     |-> "Running"]]
    /\ last' = Call("initialize", -1, << >>, TRUE, -1)
    /\ UNCHANGED <<variant, mainvars, threadvars>>

\* app.py request_resource, for a known or an unknown process / resource
AppRequest ==
    /\ variant = "app"
    /\ \E process_id \in Keys(Cardinality(DOMAIN processes) + 1),
          resource_id \in Keys(Cardinality(DOMAIN resources) + 1),
          amount \in 1 .. MaxAmount(Cardinality(DOMAIN processes),
                                     Cardinality(DOMAIN resources)) :
         \E r \in {request_resource(resources, processes,
                                    process_id, resource_id, amount)} :
             /\ processes' = r.processes
             /\ last' = Call("request", -1, << >>, r.ok, -1)
    /\ UNCHANGED <<variant, resources, mainvars, threadvars>>

\* app.py recover_deadlock
AppRecover ==
    /\ variant = "app"
    /\ \E r \in {recover_deadlock(resources, processes)} :
           /\ \A rid \in DOMAIN r.resources :
                  r.resources[rid] <= MaxGrown(Cardinality(DOMAIN processes),
                                               Cardinality(DOMAIN resources))
           /\ resources' = r.resources
           /\ processes' = r.processes
           /\ last' = Call("recover", -1, << >>, r.victim # -1, r.victim)
    /\ UNCHANGED <<variant, mainvars, threadvars>>

\* main.py initialize_system: the first call, as in main(); the 3 x 3 toolkit
\* gets the matrices of main(), the generic one any small matrices
MainInitialize ==
    /\ variant = "main"
    /\ last.op = "none"
    /\ \E av \in IF m_processes = 3 THEN {ScenarioAvailable}
                  ELSE [Keys(m_resources) -> 0 .. MaxUnits] :
        \E mx \in IF m_processes = 3 THEN {ScenarioMaximum}
                   ELSE [Keys(m_processes) ->
                            [Keys(m_resources) -> 0 .. MaxUnits + 1]] :
           /\ available' = av
           /\ maximum' = mx
           /\ need' = mx
    /\ last' = Call("initialize", -1, << >>, TRUE, -1)
    /\ UNCHANGED <<variant, appvars, m_processes, m_resources, allocation, rt,
                   threadvars>>

\* main.py request_resources
MainRequest ==
    /\ variant = "main"
    /\ last.op # "none"
    /\ \E process_id \in Keys(m_processes),
          request \in [Keys(m_resources) -> 0 .. MaxAmt] :
         \E r \in {request_resources(MainState, process_id, request)} :
             /\ available' = r.st.available
             /\ allocation' = r.st.allocation
             /\ need' = r.st.need
             /\ last' = Call("request", process_id, request, r.ok, -1)
             /\ rt' = IF r.ok
                      THEN [stage |-> "granted", pid |-> process_id,
                            req |-> request, before |-> MainState]
                      ELSE NoRT
    /\ UNCHANGED <<variant, appvars, m_processes, m_resources, maximum,
                   threadvars>>

\* main.py release_resources
MainRelease ==
    /\ variant = "main"
    /\ last.op # "none"
    /\ \E process_id \in Keys(m_processes),
          release \in [Keys(m_resources) -> 0 .. MaxAmt] :
         \E st \in {release_resources(MainState, process_id, release)} :
             /\ Debt(st.allocation) <= MaxDebt
             /\ available' = st.available
             /\ allocation' = st.allocation
             /\ need' = st.need
             /\ last' = Call("release", process_id, release, TRUE, -1)
             /\ rt' = IF rt.stage = "granted" /\ rt.pid = process_id
                         /\ rt.req = release
                      THEN [rt EXCEPT !.stage = "released"]
                      ELSE NoRT
    /\ UNCHANGED <<variant, appvars, m_processes, m_resources, maximum,
                   threadvars>>

Next ==
    \/ AppInitialize
    \/ AppRequest
    \/ AppRecover
    \/ MainInitialize
    \/ MainRequest
    \/ MainRelease

Spec == Init /\ [][Next]_vars

(* ------------------ app.py called from several threads ---------------- *)
\* (num_processes, num_resources) of the toolkit the threads share
ThreadShapes == {<<2, 2>>}
\* the capacities drawn for it: one unit of each resource, the smallest
\* system in which two requests compete for the last unit and two processes
\* can hold one resource each while waiting for the other
ThreadCaps == {1}

\* a lock that excludes nobody
NoLock == TRUE

\* "with self.lock" can be entered
LockFree == lock = 0

\* initialize_system, called once before the threads start
ThreadInitialize ==
    /\ variant = "app"
    /\ DOMAIN resources = {}
    /\ \E shape \in ThreadShapes :
        \E res \in [Keys(shape[2]) -> ThreadCaps] :
         \E mx \in [Keys(shape[1]) ->
                      [Keys(shape[2]) -> {0} \cup ThreadCaps]] :
           /\ \A pid \in Keys(shape[1]) : \A rid \in Keys(shape[2]) :
                  mx[pid][rid] <= res[rid]
           /\ resources' = res
           /\ processes' =
                  [pid \in Keys(shape[1]) |->
                      [allocated  |-> [rid \in Keys(shape[2]) |-> 0],
                       max_needed |-> mx[pid],
                       status     |-> "Running"]]
    /\ last' = Call("initialize", -1, << >>, TRUE, -1)
    /\ UNCHANGED <<variant, mainvars, threadvars>>

\* thread t calls request_resource and arrives at "with self.lock"
RequestCall(t) ==
    /\ variant = "app"
    /\ DOMAIN resources # {}
    /\ threads[t].pc = "idle"
    /\ calls < MaxCalls
    /\ calls' = calls + 1
    /\ threads' = [threads EXCEPT
                      ![t] = Frame("request", -1, -1, -1, FALSE, -1)]
    /\ UNCHANGED <<variant, appvars, mainvars, last, lock>>

\* thread t takes the lock and runs the checks of request_resource up to the
\* answer of is_safe_state; the arguments of the call are first read here
RequestCheck(t) ==
    /\ threads[t].pc = "request"
    /\ LockFree
    /\ lock' = t
    /\ \E process_id \in Keys(Cardinality(DOMAIN processes) + 1),
          resource_id \in Keys(Cardinality(DOMAIN resources) + 1),
          amount \in 1 .. MaxAmount(Cardinality(DOMAIN processes),
                                     Cardinality(DOMAIN resources)) :
         \E r \in {request_resource(resources, processes,
                                    process_id, resource_id, amount)} :
             threads' =
                 [threads EXCEPT
                     ![t] = IF r.ok
                            THEN Frame("commit", process_id, resource_id,
                                       r.processes[process_id]
                                           .allocated[resource_id],
                                       TRUE, -1)
                            ELSE Frame("commit", -1, -1, -1, FALSE, -1)]
    /\ UNCHANGED <<variant, appvars, mainvars, last, calls>>

\* thread t writes the allocation if the request was found safe, leaves the
\* "with" block and returns
RequestCommit(t) ==
    /\ threads[t].pc = "commit"
    /\ processes' =
           IF threads[t].ok
           THEN [processes EXCEPT
                    ![threads[t].process_id]
                        .allocated[threads[t].resource_id] = threads[t].temp]
           ELSE processes
    /\ lock' = 0
    /\ threads' = [threads EXCEPT ![t] = Idle]
    /\ UNCHANGED <<variant, resources, mainvars, last, calls>>

\* thread t calls recover_deadlock: detect_deadlock() runs without the lock
\* (its reads are taken as one snapshot); an empty list returns at once
RecoverDetect(t) ==
    /\ variant = "app"
    /\ DOMAIN resources # {}
    /\ threads[t].pc = "idle"
    /\ calls < MaxCalls
    /\ calls' = calls + 1
    /\ \E deadlocked \in {detect_deadlock(processes, resources)} :
           threads' =
               [threads EXCEPT
                   ![t] = IF deadlocked = << >>
                          THEN Idle
                          ELSE Frame("reclaim", -1, -1, -1, FALSE,
                                     deadlocked[1])]
    /\ UNCHANGED <<variant, appvars, mainvars, last, lock>>

\* thread t takes the lock, reclaims the units of the victim it found,
\* terminates it, leaves the "with" block and returns
RecoverReclaim(t) ==
    /\ threads[t].pc = "reclaim"
    /\ LockFree
    /\ resources' = ReclaimResources(resources, processes, threads[t].victim)
    /\ processes' = ReclaimProcess(resources, processes, threads[t].victim)
    /\ threads' = [threads EXCEPT ![t] = Idle]
    /\ UNCHANGED <<variant, mainvars, last, lock, calls>>

\* what a thread inside a call does next
ThreadStep(t) == RequestCheck(t) \/ RequestCommit(t) \/ RecoverReclaim(t)

ThreadedNext ==
    \/ ThreadInitialize
    \/ \E t \in Threads : RequestCall(t)
    \/ \E t \in Threads : RequestCheck(t)
    \/ \E t \in Threads : RequestCommit(t)
    \/ \E t \in Threads : RecoverDetect(t)
    \/ \E t \in Threads : RecoverReclaim(t)
    \/ MainInitialize
    \/ MainRequest
    \/ MainRelease

\* the threads of app.py in every interleaving; main.py has no threads and
\* runs as before
ThreadedSpec == Init /\ [][ThreadedNext]_vars

\* a thread that can take its next step is scheduled eventually
ThreadedFair ==
    ThreadedSpec /\ \A t \in Threads : WF_vars(ThreadStep(t))

(* ------------------- notions the properties are stated in -------------- *)
IsApp == variant = "app" /\ DOMAIN resources # {}
IsMain == variant = "main" /\ last.op # "none"

Procs == DOMAIN processes
Ress == DOMAIN resources

\* available[r] = resources[r] - sum of allocated[.][r], on the current state
Avail(res, procs) ==
    [rid \in DOMAIN res |-> res[rid] - SumAllocated(procs, rid)]

\* there is an order of the processes of "remaining" in which each one's need
\* is within the work vector at its turn, work growing by its allocation
RECURSIVE SafeFrom(_, _, _)
SafeFrom(procs, work, remaining) ==
    \/ remaining = {}
    \/ \E pid \in remaining :
         /\ \A rid \in DOMAIN work :
                procs[pid].max_needed[rid] - procs[pid].allocated[rid]
                    <= work[rid]
         /\ SafeFrom(procs,
                     [rid \in DOMAIN work |->
                         work[rid] + procs[pid].allocated[rid]],
                     remaining \ {pid})

BankerSafe(res, procs) == SafeFrom(procs, Avail(res, procs), DOMAIN procs)

\* the wait-for graph: p -> q when p still needs a resource q holds
Edge(p, q) ==
    \E rid \in Ress :
        /\ processes[p].max_needed[rid] - processes[p].allocated[rid] > 0
        /\ processes[q].allocated[rid] > 0

Succ(S) == {q \in Procs : \E p \in S : Edge(p, q)}

RECURSIVE Closure(_)
Closure(S) == LET T == S \cup Succ(S) IN IF T = S THEN S ELSE Closure(T)

\* p reaches itself along a path of length >= 1
OnCycle(p) == p \in Closure(Succ({p}))

Detected == Range(detect_deadlock(processes, resources))

\* P0 holds R0 and needs R1, P1 holds R1 and needs R0
MutualHoldAndWait ==
    /\ Procs = {0, 1}
    /\ Ress = {0, 1}
    /\ processes[0].allocated[0] > 0
    /\ processes[0].max_needed[1] - processes[0].allocated[1] > 0
    /\ processes[1].allocated[1] > 0
    /\ processes[1].max_needed[0] - processes[1].allocated[0] > 0

MainUnchanged ==
    /\ allocation' = allocation
    /\ available' = available
    /\ need' = need
    /\ maximum' = maximum

AppUnchanged == processes' = processes /\ resources' = resources

(* ------------------------------ C1 ------------------------------------ *)
\* C1: whenever request_resource returns True, the committed state of app.py
\* is Banker-safe: with available computed after the grant there is an order
\* in which every process can run to completion.
C1_GrantedIsSafe ==
    (IsApp /\ last.op = "request" /\ last.ok)
        => BankerSafe(resources, processes)

(* ------------------------------ C2 ------------------------------------ *)
\* C2: in every reachable state of app.py, 0 <= allocated[p][r] <=
\* max_needed[p][r] for every process and resource (a request beyond the
\* remaining need is denied).
C2_AllocatedWithinClaim ==
    IsApp => \A pid \in Procs : \A rid \in Ress :
                 /\ 0 <= processes[pid].allocated[rid]
                 /\ processes[pid].allocated[rid]
                        <= processes[pid].max_needed[rid]

(* ------------------------------ C3 ------------------------------------ *)
\* C3: in both variants a request that returns False leaves allocation, need,
\* available / capacity and every status as they were before the call.
C3_DeniedLeavesState ==
    [][(last'.op = "request" /\ ~last'.ok) => (AppUnchanged /\ MainUnchanged)]_vars

\* a request of main.py that passed the need and availability checks and was
\* rolled back as unsafe, the process holding something already
C3_Witness ==
    /\ IsMain
    /\ last.op = "request"
    /\ ~last.ok
    /\ VecLeq(last.arg, need[last.pid])
    /\ VecLeq(last.arg, available)
    /\ \E k \in DOMAIN last.arg : last.arg[k] > 0

(* ------------------------------ C4 ------------------------------------ *)
\* the call toolkit.request_resources(1, [1, 0, 2]) made on the system of
\* main() with nothing allocated
ScenarioACall ==
    /\ variant = "main"
    /\ m_processes = 3
    /\ available = ScenarioAvailable
    /\ maximum = ScenarioMaximum
    /\ allocation = ZeroMatrix(3, 3)
    /\ last'.op = "request"
    /\ last'.pid = ScenarioProcess
    /\ last'.arg = ScenarioRequest

\* C4 as claimed: in Scenario A the request P1 += [1,0,2] is granted: it
\* returns True and commits allocation[P1] = [1,0,2].
C4_ScenarioAGranted ==
    [][ScenarioACall =>
          (last'.ok /\ allocation'[ScenarioProcess] = ScenarioRequest)]_vars

\* C4 amended: in Scenario A the request P1 += [1,0,2] is denied as unsafe:
\* it returns False and allocation, available and need stay as they were.
C4_ScenarioADenied ==
    [][ScenarioACall => (~last'.ok /\ MainUnchanged)]_vars

C4_Witness ==
    /\ variant = "main"
    /\ m_processes = 3
    /\ last = Call("request", ScenarioProcess, ScenarioRequest, FALSE, -1)
    /\ allocation = ZeroMatrix(3, 3)
    /\ available = ScenarioAvailable
    /\ need = ScenarioMaximum

(* ------------------------------ C5 ------------------------------------ *)
\* C5: a release in which some amount exceeds what the process holds leaves
\* allocation, available and need unchanged, so that 0 <= allocation[p][r] <=
\* maximum[p][r] in every state reached by requests and releases.
C5_OverReleaseRefused ==
    [][(IsMain /\ last'.op = "release")
          => /\ (\E k \in DOMAIN last'.arg :
                     last'.arg[k] > allocation[last'.pid][k]) => MainUnchanged
             /\ \A i \in DOMAIN allocation' : \A k \in DOMAIN allocation'[i] :
                    /\ 0 <= allocation'[i][k]
                    /\ allocation'[i][k] <= maximum'[i][k]]_vars

(* ------------------------------ C6 ------------------------------------ *)
\* C6: a granted request_resources(p, amounts) followed at once by
\* release_resources(p, amounts) leaves available, allocation and need equal
\* to their values before the request.
C6_RoundTrip ==
    (variant = "main" /\ rt.stage = "released") => MainState = rt.before

C6_Witness ==
    /\ variant = "main"
    /\ rt.stage = "released"
    /\ last.op = "release"
    /\ \E k \in DOMAIN rt.req : rt.req[k] > 0

(* ------------------------------ C7 ------------------------------------ *)
\* C7: every process detect_deadlock returns lies on a cycle of the wait-for
\* graph; a process that only reaches a cycle of other processes is not
\* returned.
C7_DetectedOnCycle ==
    IsApp => \A pid \in Detected : OnCycle(pid)

(* ------------------------------ C8 ------------------------------------ *)
\* C8: every process on a cycle of the wait-for graph is returned by
\* detect_deadlock, and in the two-process mutual hold-and-wait state it
\* returns exactly P0 and P1.
C8_DetectComplete ==
    IsApp => /\ \A pid \in Procs : OnCycle(pid) => pid \in Detected
             /\ MutualHoldAndWait
                    => detect_deadlock(processes, resources) = <<0, 1>>

C8_Witness == IsApp /\ MutualHoldAndWait

(* ------------------------------ C9 ------------------------------------ *)
\* C9: after initialize_system the capacity resources[r] never changes, and a
\* recovery raises available[r] by exactly the victim's former allocation.
C9_CapacityFixed ==
    [][IsApp =>
          /\ resources' = resources
          /\ (last'.op = "recover" /\ last'.ok) =>
                 \A rid \in Ress :
                     Avail(resources', processes')[rid] =
                         Avail(resources, processes)[rid]
                             + processes[last'.victim].allocated[rid]]_vars

(* ------------------------------ C10 ----------------------------------- *)
\* C10: in every reachable state of app.py a process whose status is
\* "Terminated" holds nothing: allocated[p][r] = 0 for every resource.
C10_TerminatedHoldsNothing ==
    IsApp => \A pid \in Procs :
                 processes[pid].status = "Terminated"
                     => \A rid \in Ress : processes[pid].allocated[rid] = 0

(* ------------------------------ C11 ----------------------------------- *)
\* the tables after n calls of recover_deadlock() in a row
RECURSIVE RecoverTimes(_, _, _)
RecoverTimes(res, procs, n) ==
    IF n = 0 THEN [resources |-> res, processes |-> procs]
    ELSE LET r == recover_deadlock(res, procs)
         IN  RecoverTimes(r.resources, r.processes, n - 1)

\* C11: from every reachable state of app.py, recover_deadlock() called
\* again and again with no other operation in between reaches a state where
\* detect_deadlock() is empty after at most as many calls as there are
\* processes; from the mutual hold-and-wait state of two processes one call
\* is enough.
C11_RecoveryClears ==
    IsApp =>
        /\ LET s == RecoverTimes(resources, processes, Cardinality(Procs))
           IN  detect_deadlock(s.processes, s.resources) = << >>
        /\ MutualHoldAndWait =>
               LET s == RecoverTimes(resources, processes, 1)
               IN  detect_deadlock(s.processes, s.resources) = << >>

(* ------------------------------ C12 ----------------------------------- *)
\* the threads that have passed the checks of request_resource and have not
\* yet committed
Committing == {t \in Threads : threads[t].pc = "commit"}

\* C12: with several threads calling request_resource (and
\* recover_deadlock) of app.py, in every reachable state of every
\* interleaving the units allocated of each resource are within its capacity,
\* and at most one thread is between the availability check and the commit,
\* so no two requests pass the check against the same availability.
C12_AtomicRequests ==
    IsApp =>
        /\ \A rid \in Ress : SumAllocated(processes, rid) <= resources[rid]
        /\ Cardinality(Committing) <= 1

\* a thread has been granted the last unit of a resource and has not yet
\* written it, while another thread is inside request_resource at the lock
C12_Witness ==
    /\ IsApp
    /\ \E t \in Threads, u \in Threads :
         /\ t # u
         /\ threads[t].pc = "commit"
         /\ threads[t].ok
         /\ threads[t].temp - processes[threads[t].process_id]
                                  .allocated[threads[t].resource_id]
                = Avail(resources, processes)[threads[t].resource_id]
         /\ threads[u].pc = "request"

(* ------------------------------ C13 ----------------------------------- *)
\* C13: detection and reclamation of recover_deadlock are one atomic unit:
\* whenever a thread's recover_deadlock zeroes a process and terminates it,
\* that process is in the list detect_deadlock() returns on the state in
\* which the reclamation starts.
C13_VictimIsCurrent ==
    [][\A t \in Threads :
           (threads[t].pc = "reclaim" /\ threads'[t].pc = "idle")
               => threads[t].victim \in Detected]_vars

(* ------------------------------ C14 ----------------------------------- *)
\* is_safe_state makes at most P passes on every state a request hands to it
PassesWithinP ==
    /\ IsApp =>
           \A process_id \in Procs, resource_id \in Ress,
              amount \in 1 .. MaxAmount(Cardinality(Procs),
                                        Cardinality(Ress)) :
               is_safe_state_passes(
                   resources, processes, process_id,
                   [processes[process_id].allocated EXCEPT
                       ![resource_id] = @ + amount])
                   <= Cardinality(Procs)
    /\ IsMain =>
           \A process_id \in Keys(m_processes),
              request \in [Keys(m_resources) -> 0 .. MaxAmt] :
               (VecLeq(request, need[process_id])
                       /\ VecLeq(request, available))
                   => is_safe_state_main_passes(
                          TentativeAllocate(MainState, process_id, request))
                          <= m_processes

\* the lock is held only by a thread inside the "with" block
LockHeldInside == lock # 0 => threads[lock].pc = "commit"

\* C14: every operation terminates and none blocks for ever: the scan loop
\* of is_safe_state returns after at most P passes in both variants; the
\* lock of app.py is held only inside a call and given back on every return
\* path; and under fair scheduling every thread that is inside a call of
\* request_resource or recover_deadlock eventually returns from it.
C14_EveryCallReturns ==
    /\ [](PassesWithinP /\ LockHeldInside)
    /\ \A t \in Threads :
           (threads[t].pc # "idle") ~> (threads[t].pc = "idle")

\* a thread inside recover_deadlock waits for the lock that a thread inside
\* request_resource holds
C14_Witness ==
    \E t \in Threads :
        /\ threads[t].pc = "reclaim"
        /\ lock \notin {0, t}
        /\ threads[lock].pc = "commit"

(* ------------------------------ C15 ----------------------------------- *)
\* main.py: the units of resource k that exist: those available and those
\* allocated
MainTotal(k) ==
    available[k] + SumUpTo([i \in Keys(m_processes) |-> allocation[i][k]],
                           m_processes - 1)

\* C15: in every initialized state of either variant no maximum claim
\* exceeds the capacity of its resource type (an initialization with such a
\* claim is refused): max_needed[p][r] <= resources[r] in app.py,
\* maximum[p][r] <= capacity[r] in main.py.
C15_MaximumWithinCapacity ==
    /\ IsApp => \A pid \in Procs : \A rid \in Ress :
                    processes[pid].max_needed[rid] <= resources[rid]
    /\ IsMain => \A i \in Keys(m_processes) : \A k \in Keys(m_resources) :
                     maximum[i][k] <= MainTotal(k)

(* ------------------------------ C16 ----------------------------------- *)
\* main.py: there is an order of the processes of "remaining" in which each
\* one's need is within work at its turn, work growing by its allocation
RECURSIVE MainSafeFrom(_, _, _)
MainSafeFrom(st, work, remaining) ==
    \/ remaining = {}
    \/ \E i \in remaining :
         /\ VecLeq(st.need[i], work)
         /\ MainSafeFrom(st, VecAdd(work, st.allocation[i]), remaining \ {i})

\* seq[k ..] can run to completion in this order from work
RECURSIVE Completes(_, _, _, _)
Completes(st, work, seq, k) ==
    \/ k > Len(seq)
    \/ /\ VecLeq(st.need[seq[k]], work)
       /\ Completes(st, VecAdd(work, st.allocation[seq[k]]), seq, k + 1)

\* seq holds every process exactly once and is a completion order
ValidOrder(st, seq) ==
    /\ Len(seq) = st.processes
    /\ Range(seq) = Keys(st.processes)
    /\ Completes(st, st.available, seq, 1)

\* C16: on every state request_resources of main.py hands to is_safe_state()
\* (the tentative allocation of a request that passed both checks), the
\* answer is True exactly when some order of all processes lets each one run
\* with need[i] <= work at its turn, and a True answer records a
\* safe_sequence that is such an order and holds every process exactly once.
C16_SafeIffOrder ==
    IsMain =>
        \A process_id \in Keys(m_processes),
           request \in [Keys(m_resources) -> 0 .. MaxAmt] :
            (VecLeq(request, need[process_id]) /\ VecLeq(request, available))
                => LET t == TentativeAllocate(MainState, process_id, request)
                       r == is_safe_state_main(t)
                   IN  /\ r.ret <=> MainSafeFrom(t, t.available,
                                                  Keys(t.processes))
                       /\ r.ret => ValidOrder(t, r.safe_sequence)

(* ------------------------------ C17 ----------------------------------- *)
\* C17: in main.py the units of every resource are conserved: the first
\* call, initialize_system, leaves nothing allocated, so available[r] is the
\* capacity; every later request_resources / release_resources step leaves
\* available[r] + the sum of allocation[p][r] as it was; and available[r]
\* is never negative.
C17_UnitsConserved ==
    [][variant = "main" =>
          /\ last.op = "none" =>
                 \A k \in Keys(m_resources) : MainTotal(k)' = available'[k]
          /\ last.op # "none" =>
                 \A k \in Keys(m_resources) : MainTotal(k)' = MainTotal(k)
          /\ \A k \in Keys(m_resources) : available'[k] >= 0]_vars

\* units were granted and some were given back
C17_Witness ==
    /\ IsMain
    /\ last.op = "release"
    /\ \E k \in Keys(m_resources) : last.arg[k] > 0
    /\ \E i \in Keys(m_processes) : \E k \in Keys(m_resources) :
           allocation[i][k] > 0

(* ------------------------------ C18 ----------------------------------- *)
\* C18: in every initialized state of main.py, whatever calls were granted,
\* denied, rolled back or released: need[p][r] = maximum[p][r] -
\* allocation[p][r], and need[p][r] >= 0.
C18_NeedIsRemainingClaim ==
    IsMain => \A i \in Keys(m_processes) : \A k \in Keys(m_resources) :
                  /\ need[i][k] = maximum[i][k] - allocation[i][k]
                  /\ need[i][k] >= 0

\* a request for some units was tentatively applied, found unsafe and rolled
\* back, in a state where units are held
C18_Witness ==
    /\ IsMain
    /\ last.op = "request"
    /\ ~last.ok
    /\ \E k \in Keys(m_resources) : last.arg[k] > 0
    /\ VecLeq(last.arg, need[last.pid])
    /\ VecLeq(last.arg, available)
    /\ \E i \in Keys(m_processes) : \E k \in Keys(m_resources) :
           allocation[i][k] > 0

(* ------------------------------ C19 ----------------------------------- *)
\* C19: one recover_deadlock() call of app.py touches at most one process.
\* When detect_deadlock() is empty it changes nothing and reports no
\* deadlock; otherwise the victim is the first process of the detected list,
\* the one with the lowest identifier: its allocated entries become 0 and its
\* status "Terminated", its max_needed and every other process stay as they
\* were.
C19_OneVictim ==
    [][(IsApp /\ last'.op = "recover") =>
          IF Detected = {}
          THEN AppUnchanged /\ ~last'.ok
          ELSE LET v == detect_deadlock(processes, resources)[1]
               IN  /\ last'.ok
                   /\ last'.victim = v
                   /\ \A q \in Detected : v <= q
                   /\ \A rid \in Ress : processes'[v].allocated[rid] = 0
                   /\ processes'[v].status = "Terminated"
                   /\ processes'[v].max_needed = processes[v].max_needed
                   /\ \A pid \in Procs \ {v} :
                          processes'[pid] = processes[pid]]_vars

\* a recovery has terminated a victim while another detected process holds
\* units
C19_Witness ==
    /\ IsApp
    /\ last.op = "recover"
    /\ last.ok
    /\ processes[last.victim].status = "Terminated"
    /\ \E pid \in Procs \ {last.victim} : \E rid \in Ress :
           processes[pid].allocated[rid] > 0

(* ------------------------------ C20 ----------------------------------- *)
\* C20: the wait-for graph of app.py has no self-edges: a process that still
\* needs a resource it holds itself, while no other process holds anything
\* it needs, is not reported by detect_deadlock(); a single running process
\* that was granted part of its maximum claim is never reported.
C20_NoSelfEdges ==
    IsApp => \A p \in Procs :
                 (\A q \in Procs \ {p} : ~Edge(p, q)) => p \notin Detected
====
